---- MODULE Spec2Model ----
(***************************************************************************)
(* Model of the athan daemon (src/athan.py): the polling engine of main(), *)
(* the schedule builder, the refresh policy, the Quran pre-clip session    *)
(* thread and the keyboard operator.                                       *)
(*                                                                         *)
(* Time is wall-clock time in whole seconds since 1970-01-01 00:00 local   *)
(* time (a Thursday), so a datetime is one integer, its date() is the day  *)
(* number and its time() the second of the day.                            *)
(***************************************************************************)
EXTENDS Integers, Sequences, FiniteSets, TLC

VARIABLES
    clock,               \* wall-clock time (time.time() / datetime.now())
    pc,                  \* position of main(): "init", "poll", "exited", "interrupted"
    wake,                \* instant at which main()'s current sleep / fetch ends
    schedule,            \* main.schedule
    fired,               \* main.fired
    last_refresh_date,   \* main.last_refresh_date
    refreshed_after_2am, \* main.refreshed_after_2am
    offsetStore,         \* offset_sec kept in STATE_FILE
    sessions,            \* running _play_loop threads
    mixer,               \* pygame.mixer.music
    stop_flag,           \* stop_flag (threading.Event)
    env,                 \* installation: pygame present, files present, clip length
    ticks,               \* engine steps taken so far (bounded by MaxTicks)
    cmds,                \* operator commands issued so far (bounded by MaxCmds)
    incarnation,         \* number of process starts so far, minus one
    gen,                 \* number of successful builds so far (schedule generation)
    log,                 \* observation: every dispatch made by the event pass
    refreshLog,          \* observation: every build attempt (initial, or a tick's refresh)
    lastNow,             \* observation: `now` of the latest tick of the running process
    done,                \* observation: the last session that ran to window close
    resetPending,        \* observation: reset-offset issued, no session started since
    fetched              \* observation: the times returned by the latest successful build's fetch

vars == <<clock, pc, wake, schedule, fired, last_refresh_date, refreshed_after_2am,
          offsetStore, sessions, mixer, stop_flag, env, ticks, cmds, incarnation,
          gen, log, refreshLog, lastNow, done, resetPending, fetched>>

-----------------------------------------------------------------------------
(* Bounds of the model                                                     *)

MaxTicks == 5
MaxCmds == 1
MaxRestarts == 1

-----------------------------------------------------------------------------
(* Program constants                                                       *)

POLL_SEC == 5
TRIGGER_WINDOW_SEC == 60
PRECLIP_SECONDS == 600
InitRetrySec == 60
RefreshRetrySec == 300
QuranPreLeadMin == 5
IshaPreLeadSec == 1167
KahfLeadMin == 31
FRIDAY == 4

DAY == 24 * 3600
TwoAM == 2 * 3600
MorningTime == 6 * 3600 + 30 * 60
NoDate == -1
NoTick == NoDate

PRAYERS == <<"Fajr", "Dhuhr", "Asr", "Maghrib", "Isha">>

SOUND_GENERAL == "athanfull.mp3"
SOUND_FAJR == "athanfullfajr.mp3"
SOUND_SHORT == "athanshort.mp3"
SOUND_ISHA_PRE == "athkar_masaa.mp3"
SOUND_MORNING == "morning_athkar.mp3"
SOUND_KAHF == "alkahf.mp3"
DAILY_QURAN == "daily_quran.mp3"

AllFiles == {SOUND_GENERAL, SOUND_FAJR, SOUND_SHORT, SOUND_ISHA_PRE,
             SOUND_MORNING, SOUND_KAHF, DAILY_QURAN}

-----------------------------------------------------------------------------
(* datetime helpers                                                        *)

DateOf(t) == t \div DAY
TimeOf(t) == t % DAY
Weekday(d) == (d + 3) % 7

Min(a, b) == IF a <= b THEN a ELSE b

-----------------------------------------------------------------------------
(* ScheduleSource: what fetch_epic_adhaan_times can return.  A scraped    *)
(* time is the text "H:MM" + "AM"/"PM", kept as <<H, MM, "AM"|"PM">>.      *)

SrcA == [p \in {"Fajr", "Isha"} |->
           IF p = "Fajr" THEN <<2, 4, "AM">> ELSE <<2, 19, "AM">>]

SrcB == [p \in {"Fajr", "Isha"} |->
           IF p = "Fajr" THEN <<2, 5, "AM">> ELSE <<2, 20, "AM">>]

SrcBad == [p \in {"Fajr"} |-> <<13, 5, "AM">>]

Sources == {SrcA, SrcB, SrcBad}

(* the scraped times the builder is exercised with: per prayer, the times *)
(* the page may show (some coincide with another event of the day)         *)
TimeChoices ==
    [p \in {PRAYERS[i] : i \in DOMAIN PRAYERS} |->
        CASE p = "Fajr" -> {<<5, 30, "AM">>, <<6, 35, "AM">>}
          [] p = "Dhuhr" -> {<<12, 15, "PM">>, <<3, 14, "PM">>}
          [] p = "Asr" -> {<<3, 45, "PM">>, <<12, 20, "PM">>}
          [] p = "Maghrib" -> {<<6, 50, "PM">>}
          [] p = "Isha" -> {<<8, 10, "PM">>, <<6, 45, "PM">>}]

(* every dict fetch_epic_adhaan_times can return over these times: any    *)
(* subset of the five prayers (a prayer whose pattern does not match is    *)
(* absent)                                                                 *)
BuilderSources ==
    UNION { {f \in [S -> UNION {TimeChoices[p] : p \in S}] :
                \A p \in S : f[p] \in TimeChoices[p]}
            : S \in SUBSET DOMAIN TimeChoices }

-----------------------------------------------------------------------------
(* parse_today_dt: strptime "%m/%d/%Y %I:%M%p" on today's date              *)

ValidTime(s) == s[1] \in 1..12 /\ s[2] \in 0..59

parse_today_dt(s, today) ==
    today * DAY + ((s[1] % 12) + (IF s[3] = "PM" THEN 12 ELSE 0)) * 3600 + s[2] * 60

sound_for(prayer) == IF prayer = "Fajr" THEN SOUND_FAJR ELSE SOUND_GENERAL

QuranPreLabel(p) ==
    CASE p = "Fajr" -> "Fajr-QuranPre"
      [] p = "Dhuhr" -> "Dhuhr-QuranPre"
      [] p = "Asr" -> "Asr-QuranPre"
      [] p = "Maghrib" -> "Maghrib-QuranPre"
      [] p = "Isha" -> "Isha-QuranPre"

Event(label, t, kind, payload) ==
    [label |-> label, t |-> t, kind |-> kind, payload |-> payload]

(* InsertSorted placing an event before the events of equal time *)
RECURSIVE InsertSorted_BeforeEqual(_, _)
InsertSorted_BeforeEqual(s, e) ==
    IF s = <<>> THEN <<e>>
    ELSE IF s[Len(s)].t < e.t THEN Append(s, e)
    ELSE Append(InsertSorted_BeforeEqual(SubSeq(s, 1, Len(s) - 1), e), s[Len(s)])

(* list.sort(key=lambda t: t[1]): a stable sort, here by insertion *)
RECURSIVE InsertSorted(_, _)
InsertSorted(s, e) ==
    IF s = <<>> THEN <<e>>
    ELSE IF s[Len(s)].t <= e.t THEN Append(s, e)
    ELSE Append(InsertSorted(SubSeq(s, 1, Len(s) - 1), e), s[Len(s)])

RECURSIVE SortByTime(_)
SortByTime(s) ==
    IF s = <<>> THEN <<>>
    ELSE InsertSorted(SortByTime(SubSeq(s, 1, Len(s) - 1)), s[Len(s)])

(* the "for p in PRAYERS" loop of build_today_schedule, from index i on *)
RECURSIVE PrayerEvents(_, _, _)
PrayerEvents(i, times, today) ==
    IF i > Len(PRAYERS) THEN <<>>
    ELSE LET p == PRAYERS[i]
             dtm == parse_today_dt(times[p], today)
             play == <<Event(p, dtm, "play", sound_for(p))>>
             pre == IF p # "Isha" /\ ~(p = "Asr" /\ Weekday(today) = FRIDAY)
                    THEN <<Event(QuranPreLabel(p), dtm - QuranPreLeadMin * 60, "quran", "none")>>
                    ELSE <<>>
         IN  (IF p \in DOMAIN times THEN play \o pre ELSE <<>>)
             \o PrayerEvents(i + 1, times, today)

(* IshaPreEvents with a lead of 20 minutes *)
IshaPreEvents_20Min(times, today, files) ==
    IF "Isha" \in DOMAIN times /\ SOUND_ISHA_PRE \in files
    THEN <<Event("Isha-Pre", parse_today_dt(times["Isha"], today) - 20 * 60,
                 "play", SOUND_ISHA_PRE)>>
    ELSE <<>>

IshaPreEvents(times, today, files) ==
    IF "Isha" \in DOMAIN times /\ SOUND_ISHA_PRE \in files
    THEN <<Event("Isha-Pre", parse_today_dt(times["Isha"], today) - IshaPreLeadSec,
                 "play", SOUND_ISHA_PRE)>>
    ELSE <<>>

MorningEvents(today) ==
    <<Event("Morning-Athkar", today * DAY + MorningTime, "play", SOUND_MORNING)>>

KahfEvents(times, today) ==
    IF Weekday(today) = FRIDAY /\ "Asr" \in DOMAIN times
    THEN <<Event("Kahf-PreAsr", parse_today_dt(times["Asr"], today) - KahfLeadMin * 60,
                 "play", SOUND_KAHF)>>
    ELSE <<>>

(* build_today_schedule raises when the fetch fails or a scraped time does *)
(* not parse; otherwise it returns the sorted list                         *)
BuildRaises(fetchOk, times) ==
    ~fetchOk \/ \E p \in DOMAIN times : ~ValidTime(times[p])

(* the list as appended, before schedule.sort *)
emitted_events(times, today, files) ==
    PrayerEvents(1, times, today)
       \o IshaPreEvents(times, today, files)
       \o MorningEvents(today)
       \o KahfEvents(times, today)

build_today_schedule(times, today, files) ==
    SortByTime(emitted_events(times, today, files))

-----------------------------------------------------------------------------
(* RefreshPolicy                                                           *)

(* should_refresh without the "not refreshed_after_2am" test *)
should_refresh_NoFlag(now, last, refreshed) ==
    \/ last = NoDate
    \/ DateOf(now) # last
    \/ TimeOf(now) >= TwoAM

(* should_refresh without the "now.date() != last_refresh_date" test *)
should_refresh_NoDate(now, last, refreshed) ==
    \/ last = NoDate
    \/ (~refreshed /\ TimeOf(now) >= TwoAM)

should_refresh(now, last, refreshed) ==
    \/ last = NoDate
    \/ DateOf(now) # last
    \/ (~refreshed /\ TimeOf(now) >= TwoAM)

-----------------------------------------------------------------------------
(* Installation and audio device                                           *)

EnvFull(duration) == [pygame |-> TRUE, files |-> AllFiles, duration |-> duration]

(* no pre-clip file and no Isha pre-file installed: the clip length is unknown *)
EnvBare == [pygame |-> TRUE, files |-> AllFiles \ {SOUND_ISHA_PRE, DAILY_QURAN},
            duration |-> 0]

ThuBeforeMidnight == 23 * 3600 + 59 * 60 + 50
FriBefore2AM == DAY + 3600 + 59 * 60 + 50

(* the starts explored: <<instant of the process start, installation, offset_sec *)
(* found in STATE_FILE>>; a stored offset is 0 or what a session of that clip   *)
(* length leaves behind                                                          *)
Scenarios == { <<FriBefore2AM, EnvFull(400), 0>>,
               <<FriBefore2AM, EnvFull(400), PRECLIP_SECONDS % 400>>,
               <<FriBefore2AM, EnvFull(600), 0>>,
               <<FriBefore2AM, EnvBare, 0>>,
               <<ThuBeforeMidnight, EnvFull(400), 0>> }

MixerIdle == [loaded |-> "none", playing |-> FALSE]

(* no fetch has succeeded yet: a dict without keys *)
NoTimes == << >>

NoSession == [offset0 |-> -1, duration |-> 0, saved |-> -1, afterReset |-> FALSE]

(* play_sound(path) *)
play_sound(path, mx, e) ==
    IF path \notin e.files THEN mx
    ELSE IF e.pygame THEN [loaded |-> path, playing |-> TRUE]
    ELSE mx

(* load_offset() % duration *)
load_offset(store, duration) == store % duration

(* play_quran_segment() called at instant `at`: the guards, then the thread *)
CanPlayQuran(e) == e.pygame /\ DAILY_QURAN \in e.files /\ e.duration > 0

play_quran_segment(ss, store, at, e, pending) ==
    IF CanPlayQuran(e)
    THEN Append(ss, [offset |-> load_offset(store, e.duration),
                     offset0 |-> load_offset(store, e.duration),
                     end_time |-> at + PRECLIP_SECONDS,
                     duration |-> e.duration,
                     pc |-> "loop",
                     wakeAt |-> at,
                     afterReset |-> pending])
    ELSE ss

(* stop_all_sounds() on the mixer *)
mixer_stop(mx) == [mx EXCEPT !.playing = FALSE]

(* next_offset without the "% duration" *)
NextOffset_NoMod(offset, elapsed, duration) == offset + elapsed

(* next_offset of _play_loop *)
NextOffset(offset, elapsed, duration) == (offset + elapsed) % duration

-----------------------------------------------------------------------------
(* The event pass of a tick (for label, t, kind, payload in schedule)      *)

EventKey(e) == <<e.label, DateOf(e.t), TimeOf(e.t)>>

Due(e, now) == (now - e.t) >= 0 /\ (now - e.t) < TRIGGER_WINDOW_SEC

(* FireEvent without fired.add(key) *)
FireEvent_NoMark(e, st, now, failAt) ==
    LET n1 == st.n + 1
        started == e.kind = "quran" /\ CanPlayQuran(env)
    IN  [ fired    |-> st.fired,
          mixer    |-> IF e.kind = "play" THEN play_sound(e.payload, st.mixer, env)
                       ELSE st.mixer,
          sessions |-> IF e.kind = "quran"
                       THEN play_quran_segment(st.sessions, offsetStore, now, env, st.pending)
                       ELSE st.sessions,
          pending  |-> st.pending /\ ~started,
          log      |-> st.log \cup {[label |-> e.label, t |-> e.t, now |-> now,
                                     gen |-> st.gen, inc |-> incarnation]},
          gen      |-> st.gen,
          n        |-> n1,
          crashed  |-> failAt = n1 ]

(* One iteration of the loop body for a due, unfired event.  st.n counts   *)
(* the dispatches of this pass; failAt is the one whose socketio.emit      *)
(* raises (0: none), which ends main() before fired.add(key).              *)
FireEvent(e, st, now, failAt) ==
    LET n1 == st.n + 1
        started == e.kind = "quran" /\ CanPlayQuran(env)
    IN  [ fired    |-> IF failAt = n1 THEN st.fired ELSE st.fired \cup {EventKey(e)},
          mixer    |-> IF e.kind = "play" THEN play_sound(e.payload, st.mixer, env)
                       ELSE st.mixer,
          sessions |-> IF e.kind = "quran"
                       THEN play_quran_segment(st.sessions, offsetStore, now, env, st.pending)
                       ELSE st.sessions,
          pending  |-> st.pending /\ ~started,
          log      |-> st.log \cup {[label |-> e.label, t |-> e.t, now |-> now,
                                     gen |-> st.gen, inc |-> incarnation]},
          gen      |-> st.gen,
          n        |-> n1,
          crashed  |-> failAt = n1 ]

RECURSIVE EventPass(_, _, _, _, _)
EventPass(i, sched, st, now, failAt) ==
    IF i > Len(sched) \/ st.crashed THEN st
    ELSE LET e == sched[i]
         IN  IF EventKey(e) \in st.fired THEN EventPass(i + 1, sched, st, now, failAt)
             ELSE IF Due(e, now)
                  THEN EventPass(i + 1, sched, FireEvent(e, st, now, failAt), now, failAt)
                  ELSE EventPass(i + 1, sched, st, now, failAt)

PassStart(f, g) ==
    [fired |-> f, mixer |-> mixer, sessions |-> sessions, pending |-> resetPending,
     log |-> log, gen |-> g, n |-> 0, crashed |-> FALSE]

(* the update of refreshed_after_2am that ends a tick *)
MarkAfter2AM(now, last, refreshed) ==
    IF ~refreshed /\ TimeOf(now) >= TwoAM /\ DateOf(now) = last THEN TRUE ELSE refreshed

-----------------------------------------------------------------------------
Init ==
    /\ \E sc \in Scenarios : clock = sc[1] /\ env = sc[2] /\ offsetStore = sc[3]
    /\ pc = "init"
    /\ wake = clock
    /\ schedule = <<>>
    /\ fired = {}
    /\ last_refresh_date = NoDate
    /\ refreshed_after_2am = FALSE
    /\ sessions = <<>>
    /\ mixer = MixerIdle
    /\ stop_flag = FALSE
    /\ ticks = 0
    /\ cmds = 0
    /\ incarnation = 0
    /\ gen = 0
    /\ log = {}
    /\ refreshLog = {}
    /\ lastNow = NoTick
    /\ done = NoSession
    /\ resetPending = FALSE
    /\ fetched = NoTimes

Alive == pc \in {"init", "poll"}

(* the process ends: its memory, its daemon threads and its mixer go with it *)
ProcessEnds ==
    /\ schedule' = <<>>
    /\ fired' = {}
    /\ last_refresh_date' = NoDate
    /\ refreshed_after_2am' = FALSE
    /\ sessions' = <<>>
    /\ mixer' = MixerIdle
    /\ stop_flag' = FALSE
    /\ wake' = clock
    /\ lastNow' = NoTick

EngineReady == Alive /\ clock >= wake /\ ticks < MaxTicks

BuildRecord(now, ok, inTick) ==
    [now |-> now, inc |-> incarnation, ok |-> ok, tick |-> inTick]

(* InitialBuildFail leaving the initial loop although the build raised *)
InitialBuildFail_FallsThrough(src, fetchOk) ==
    /\ pc = "init" /\ EngineReady
    /\ BuildRaises(fetchOk, src)
    /\ wake' = clock + InitRetrySec
    /\ refreshLog' = refreshLog \cup {BuildRecord(clock, FALSE, FALSE)}
    /\ ticks' = ticks + 1
    /\ pc' = "poll"
    /\ UNCHANGED <<clock, schedule, fired, last_refresh_date, refreshed_after_2am,
                   offsetStore, sessions, mixer, stop_flag, env, cmds, incarnation,
                   gen, log, lastNow, done, resetPending,
                   fetched>>

(* the "Initial fetch" loop of main(): one attempt *)
InitialBuildFail(src, fetchOk) ==
    /\ pc = "init" /\ EngineReady
    /\ BuildRaises(fetchOk, src)
    /\ wake' = clock + InitRetrySec
    /\ refreshLog' = refreshLog \cup {BuildRecord(clock, FALSE, FALSE)}
    /\ ticks' = ticks + 1
    /\ UNCHANGED <<clock, pc, schedule, fired, last_refresh_date, refreshed_after_2am,
                   offsetStore, sessions, mixer, stop_flag, env, cmds, incarnation,
                   gen, log, lastNow, done, resetPending,
                   fetched>>

InitialBuildOk(src) ==
    /\ pc = "init" /\ EngineReady
    /\ ~BuildRaises(TRUE, src)
    /\ schedule' = build_today_schedule(src, DateOf(clock), env.files)
    /\ last_refresh_date' = DateOf(clock)
    /\ refreshed_after_2am' = (TimeOf(clock) >= TwoAM)
    /\ pc' = "poll"
    /\ wake' = clock
    /\ gen' = gen + 1
    /\ refreshLog' = refreshLog \cup {BuildRecord(clock, TRUE, FALSE)}
    /\ ticks' = ticks + 1
    /\ fetched' = src
    /\ UNCHANGED <<clock, fired, offsetStore, sessions, mixer, stop_flag, env, cmds,
                   incarnation, log, lastNow, done, resetPending>>

(* what one pass of the polling loop does once the schedule is settled *)
FinishTick(now, sched, fired0, last, refreshed, g, failAt) ==
    LET st == EventPass(1, sched, PassStart(fired0, g), now, failAt)
    IN  /\ gen' = g
        /\ log' = st.log
        /\ resetPending' = st.pending
        /\ IF st.crashed
           THEN /\ pc' = "exited"
                /\ ProcessEnds
           ELSE /\ pc' = "poll"
                /\ schedule' = sched
                /\ fired' = st.fired
                /\ last_refresh_date' = last
                /\ sessions' = st.sessions
                /\ mixer' = st.mixer
                /\ refreshed_after_2am' = MarkAfter2AM(now, last, refreshed)
                /\ stop_flag' = stop_flag
                /\ wake' = now + POLL_SEC
                /\ lastNow' = now

NumDispatches(now, sched, fired0, g) ==
    EventPass(1, sched, PassStart(fired0, g), now, 0).n

(* a tick whose refresh decision is false *)
TickNoRefresh(failAt) ==
    /\ pc = "poll" /\ EngineReady
    /\ ~should_refresh(clock, last_refresh_date, refreshed_after_2am)
    /\ failAt \in 0..NumDispatches(clock, schedule, fired, gen)
    /\ FinishTick(clock, schedule, fired, last_refresh_date,
                  refreshed_after_2am, gen, failAt)
    /\ ticks' = ticks + 1
    /\ UNCHANGED <<clock, offsetStore, env, cmds, incarnation, refreshLog, done,
                   fetched>>

(* TickRefreshOk without fired.clear() *)
TickRefreshOk_KeepFired(src, failAt) ==
    /\ pc = "poll" /\ EngineReady
    /\ should_refresh(clock, last_refresh_date, refreshed_after_2am)
    /\ ~BuildRaises(TRUE, src)
    /\ LET sched == build_today_schedule(src, DateOf(clock), env.files)
       IN  /\ failAt \in 0..NumDispatches(clock, sched, fired, gen + 1)
           /\ FinishTick(clock, sched, fired, DateOf(clock),
                         TimeOf(clock) >= TwoAM, gen + 1, failAt)
    /\ refreshLog' = refreshLog \cup {BuildRecord(clock, TRUE, TRUE)}
    /\ fetched' = src
    /\ ticks' = ticks + 1
    /\ UNCHANGED <<clock, offsetStore, env, cmds, incarnation, done>>

(* a tick whose refresh decision is true and whose build succeeds *)
TickRefreshOk(src, failAt) ==
    /\ pc = "poll" /\ EngineReady
    /\ should_refresh(clock, last_refresh_date, refreshed_after_2am)
    /\ ~BuildRaises(TRUE, src)
    /\ LET sched == build_today_schedule(src, DateOf(clock), env.files)
       IN  /\ failAt \in 0..NumDispatches(clock, sched, {}, gen + 1)
           /\ FinishTick(clock, sched, {}, DateOf(clock),
                         TimeOf(clock) >= TwoAM, gen + 1, failAt)
    /\ refreshLog' = refreshLog \cup {BuildRecord(clock, TRUE, TRUE)}
    /\ fetched' = src
    /\ ticks' = ticks + 1
    /\ UNCHANGED <<clock, offsetStore, env, cmds, incarnation, done>>

(* TickRefreshFail with last_refresh_date assigned before the build raises *)
TickRefreshFail_MarksDate(src, fetchOk) ==
    /\ pc = "poll" /\ EngineReady
    /\ should_refresh(clock, last_refresh_date, refreshed_after_2am)
    /\ BuildRaises(fetchOk, src)
    /\ wake' = clock + RefreshRetrySec
    /\ refreshLog' = refreshLog \cup {BuildRecord(clock, FALSE, TRUE)}
    /\ lastNow' = clock
    /\ ticks' = ticks + 1
    /\ last_refresh_date' = DateOf(clock)
    /\ UNCHANGED <<clock, pc, schedule, fired, refreshed_after_2am,
                   offsetStore, sessions, mixer, stop_flag, env, cmds, incarnation,
                   gen, log, done, resetPending,
                   fetched>>

(* a tick whose refresh decision is true and whose build raises *)
TickRefreshFail(src, fetchOk) ==
    /\ pc = "poll" /\ EngineReady
    /\ should_refresh(clock, last_refresh_date, refreshed_after_2am)
    /\ BuildRaises(fetchOk, src)
    /\ wake' = clock + RefreshRetrySec
    /\ refreshLog' = refreshLog \cup {BuildRecord(clock, FALSE, TRUE)}
    /\ lastNow' = clock
    /\ ticks' = ticks + 1
    /\ UNCHANGED <<clock, pc, schedule, fired, last_refresh_date, refreshed_after_2am,
                   offsetStore, sessions, mixer, stop_flag, env, cmds, incarnation,
                   gen, log, done, resetPending,
                   fetched>>

-----------------------------------------------------------------------------
(* The _play_loop thread of a session                                      *)

RemoveAt(ss, i) == SubSeq(ss, 1, i - 1) \o SubSeq(ss, i + 1, Len(ss))

SessionReady(i) == Alive /\ i \in DOMAIN sessions /\ sessions[i].wakeAt <= clock

(* while time.time() < end_time: load, play(start=offset), time.sleep(play_time) *)
SessionPlay(i) ==
    /\ SessionReady(i)
    /\ sessions[i].pc = "loop"
    /\ clock < sessions[i].end_time
    /\ LET s == sessions[i]
           play_time == Min(s.duration - s.offset, s.end_time - clock)
       IN  sessions' = [sessions EXCEPT ![i] = [s EXCEPT !.pc = "sleep",
                                                         !.wakeAt = clock + play_time]]
    /\ mixer' = [loaded |-> DAILY_QURAN, playing |-> TRUE]
    /\ UNCHANGED <<clock, pc, wake, schedule, fired, last_refresh_date,
                   refreshed_after_2am, offsetStore, stop_flag, env, ticks, cmds,
                   incarnation, gen, log, refreshLog, lastNow, done, resetPending,
                   fetched>>

(* after the sleep: pygame.mixer.music.stop(); offset = 0 *)
SessionStop(i) ==
    /\ SessionReady(i)
    /\ sessions[i].pc = "sleep"
    /\ sessions' = [sessions EXCEPT ![i] = [sessions[i] EXCEPT !.pc = "loop", !.offset = 0]]
    /\ mixer' = mixer_stop(mixer)
    /\ UNCHANGED <<clock, pc, wake, schedule, fired, last_refresh_date,
                   refreshed_after_2am, offsetStore, stop_flag, env, ticks, cmds,
                   incarnation, gen, log, refreshLog, lastNow, done, resetPending,
                   fetched>>

(* the loop test fails: compute next_offset, save_offset, the thread ends *)
SessionSave(i) ==
    /\ SessionReady(i)
    /\ sessions[i].pc = "loop"
    /\ clock >= sessions[i].end_time
    /\ LET s == sessions[i]
           next_offset == NextOffset(s.offset, clock - (s.end_time - PRECLIP_SECONDS),
                                     s.duration)
       IN  /\ offsetStore' = next_offset
           /\ done' = [offset0 |-> s.offset0, duration |-> s.duration,
                       saved |-> next_offset, afterReset |-> s.afterReset]
    /\ sessions' = RemoveAt(sessions, i)
    /\ UNCHANGED <<clock, pc, wake, schedule, fired, last_refresh_date,
                   refreshed_after_2am, mixer, stop_flag, env, ticks, cmds,
                   incarnation, gen, log, refreshLog, lastNow, resetPending,
                   fetched>>

-----------------------------------------------------------------------------
(* key_watcher: the operator's commands                                    *)

CanCommand == Alive /\ cmds < MaxCmds

(* Enter: play_sound(SOUND_SHORT) *)
CmdShortTest ==
    /\ CanCommand
    /\ mixer' = play_sound(SOUND_SHORT, mixer, env)
    /\ cmds' = cmds + 1
    /\ UNCHANGED <<clock, pc, wake, schedule, fired, last_refresh_date,
                   refreshed_after_2am, offsetStore, sessions, stop_flag, env, ticks,
                   incarnation, gen, log, refreshLog, lastNow, done, resetPending,
                   fetched>>

(* q: play_quran_segment() *)
CmdQuranTest ==
    /\ CanCommand
    /\ sessions' = play_quran_segment(sessions, offsetStore, clock, env, resetPending)
    /\ resetPending' = (resetPending /\ ~CanPlayQuran(env))
    /\ cmds' = cmds + 1
    /\ UNCHANGED <<clock, pc, wake, schedule, fired, last_refresh_date,
                   refreshed_after_2am, offsetStore, mixer, stop_flag, env, ticks,
                   incarnation, gen, log, refreshLog, lastNow, done,
                   fetched>>

(* r: reset_quran_offset() *)
reset_quran_offset ==
    /\ CanCommand
    /\ offsetStore' = 0
    /\ resetPending' = TRUE
    /\ cmds' = cmds + 1
    /\ UNCHANGED <<clock, pc, wake, schedule, fired, last_refresh_date,
                   refreshed_after_2am, sessions, mixer, stop_flag, env, ticks,
                   incarnation, gen, log, refreshLog, lastNow, done,
                   fetched>>

(* esc: stop_all_sounds() *)
stop_all_sounds ==
    /\ CanCommand
    /\ stop_flag' = TRUE
    /\ mixer' = IF env.pygame THEN mixer_stop(mixer) ELSE mixer
    /\ cmds' = cmds + 1
    /\ UNCHANGED <<clock, pc, wake, schedule, fired, last_refresh_date,
                   refreshed_after_2am, offsetStore, sessions, env, ticks,
                   incarnation, gen, log, refreshLog, lastNow, done, resetPending,
                   fetched>>

-----------------------------------------------------------------------------
(* The process and the clock                                               *)

(* Ctrl-C: KeyboardInterrupt ends main(); the daemon threads end with it *)
Interrupt ==
    /\ Alive
    /\ pc' = "interrupted"
    /\ ProcessEnds
    /\ UNCHANGED <<clock, offsetStore, env, ticks, cmds, incarnation, gen, log,
                   refreshLog, done, resetPending,
                   fetched>>

(* the process is started again: main() from its first line; STATE_FILE stays *)
Restart ==
    /\ ~Alive
    /\ incarnation < MaxRestarts
    /\ pc' = "init"
    /\ incarnation' = incarnation + 1
    /\ UNCHANGED <<clock, wake, schedule, fired, last_refresh_date, refreshed_after_2am,
                   offsetStore, sessions, mixer, stop_flag, env, ticks, cmds, gen, log,
                   refreshLog, lastNow, done, resetPending,
                   fetched>>

Deadlines == {wake} \cup {sessions[i].wakeAt : i \in DOMAIN sessions}

(* time passes up to the next instant at which a sleeping thread wakes *)
Advance ==
    /\ Alive
    /\ \A t \in Deadlines : t > clock
    /\ clock' = CHOOSE t \in Deadlines : \A u \in Deadlines : t <= u
    /\ UNCHANGED <<pc, wake, schedule, fired, last_refresh_date, refreshed_after_2am,
                   offsetStore, sessions, mixer, stop_flag, env, ticks, cmds,
                   incarnation, gen, log, refreshLog, lastNow, done, resetPending,
                   fetched>>

Next ==
    \/ \E src \in Sources, ok \in BOOLEAN : InitialBuildFail(src, ok)
    \/ \E src \in Sources : InitialBuildOk(src)
    \/ \E failAt \in 0..MaxTicks : TickNoRefresh(failAt)
    \/ \E src \in Sources, failAt \in 0..MaxTicks : TickRefreshOk(src, failAt)
    \/ \E src \in Sources, ok \in BOOLEAN : TickRefreshFail(src, ok)
    \/ \E i \in DOMAIN sessions : SessionPlay(i)
    \/ \E i \in DOMAIN sessions : SessionStop(i)
    \/ \E i \in DOMAIN sessions : SessionSave(i)
    \/ CmdShortTest
    \/ CmdQuranTest
    \/ reset_quran_offset
    \/ stop_all_sounds
    \/ Interrupt
    \/ Restart
    \/ Advance

Spec == Init /\ [][Next]_vars

-----------------------------------------------------------------------------
(* The builder on its own: main() up to the first successful build, over  *)
(* every fetch result of BuilderSources, on a Thursday and on a Friday,    *)
(* with and without the Isha pre-file.                                     *)

BuilderScenarios == { <<ThuBeforeMidnight, EnvFull(400), 0>>,
                      <<ThuBeforeMidnight, EnvBare, 0>>,
                      <<FriBefore2AM, EnvFull(400), 0>>,
                      <<FriBefore2AM, EnvBare, 0>> }

BuilderInit ==
    /\ \E sc \in BuilderScenarios : clock = sc[1] /\ env = sc[2] /\ offsetStore = sc[3]
    /\ pc = "init"
    /\ wake = clock
    /\ schedule = <<>>
    /\ fired = {}
    /\ last_refresh_date = NoDate
    /\ refreshed_after_2am = FALSE
    /\ sessions = <<>>
    /\ mixer = MixerIdle
    /\ stop_flag = FALSE
    /\ ticks = 0
    /\ cmds = 0
    /\ incarnation = 0
    /\ gen = 0
    /\ log = {}
    /\ refreshLog = {}
    /\ lastNow = NoTick
    /\ done = NoSession
    /\ resetPending = FALSE
    /\ fetched = NoTimes

BuilderNext == \E src \in BuilderSources : InitialBuildOk(src)

BuilderSpec == BuilderInit /\ [][BuilderNext]_vars

-----------------------------------------------------------------------------
(* Properties                                                              *)

SameEvent(r1, r2) == r1.label = r2.label /\ r1.t = r2.t

DispatchesOf(e, g) == {r \in log : r.label = e.label /\ r.t = e.t /\ r.gen = g}

(* C1: within one schedule generation every event key is dispatched at    *)
(* most once, whatever ticks follow: two dispatches of the same event in   *)
(* the same generation are the same dispatch, and every key in FiredSet    *)
(* belongs to an event that was dispatched exactly once in the current     *)
(* generation.                                                             *)
C1_AtMostOncePerGeneration ==
    /\ \A r1, r2 \in log : (SameEvent(r1, r2) /\ r1.gen = r2.gen) => r1.now = r2.now
    /\ \A i \in DOMAIN schedule :
          EventKey(schedule[i]) \in fired
             => Cardinality(DispatchesOf(schedule[i], gen)) = 1

(* a later tick of the same generation found the dispatched event still   *)
(* inside its trigger window and its key in FiredSet                       *)
C1_Witness ==
    /\ pc = "poll"
    /\ \E i \in DOMAIN schedule : \E r \in DispatchesOf(schedule[i], gen) :
          /\ EventKey(schedule[i]) \in fired
          /\ lastNow > r.now
          /\ Due(schedule[i], lastNow)

DispatchRecord(e, now, g) ==
    [label |-> e.label, t |-> e.t, now |-> now, gen |-> g, inc |-> incarnation]

PassExact(sched, fired0, g) ==
    \A i \in DOMAIN sched :
       EventKey(sched[i]) \notin fired0
          => (Due(sched[i], clock) <=> DispatchRecord(sched[i], clock, g) \in log')

(* C2: in a tick that reaches the event pass, an event of the current     *)
(* schedule whose key is not in FiredSet is dispatched if and only if      *)
(* fireAt <= now < fireAt + 60 s.                                          *)
C2_DispatchedIffDue ==
    [][ /\ \A f \in 0..MaxTicks :
             TickNoRefresh(f) => PassExact(schedule, fired, gen)
        /\ \A src \in Sources : \A f \in 0..MaxTicks :
             TickRefreshOk(src, f)
                => PassExact(build_today_schedule(src, DateOf(clock), env.files),
                             {}, gen + 1) ]_vars

(* C3: an event with the same label and fireAt before and after a rebuild *)
(* is dispatched at most once by the running process.                      *)
C3_OnceAcrossRefresh ==
    \A r1, r2 \in log : (SameEvent(r1, r2) /\ r1.inc = r2.inc) => r1.now = r2.now

(* C4: an event dispatched before a restart of the process is not         *)
(* dispatched again by the restarted process.                              *)
C4_OnceAcrossRestart ==
    \A r1, r2 \in log : SameEvent(r1, r2) => r1.inc = r2.inc

(* C5: a session that runs to window close saves the position playback   *)
(* had reached in the clip, (start offset + window) mod duration.          *)
C5_SavesReachedPosition ==
    done.offset0 >= 0
       => done.saved = (done.offset0 + PRECLIP_SECONDS) % done.duration

(* C6: a session that starts at offset 0 and runs to window close saves   *)
(* window mod duration: 0 for a 600 s clip, 200 for a 400 s clip.          *)
C6_SavedFromZero ==
    done.offset0 = 0
       => /\ done.saved = PRECLIP_SECONDS % done.duration
          /\ done.duration = 600 => done.saved = 0
          /\ done.duration = 400 => done.saved = 200

(* a session of the 400 s clip started at offset 0, looped and closed *)
C6_Witness ==
    done.offset0 = 0 /\ done.duration = 400 /\ done.saved = 200

(* C7: from a reset-offset until the next session starts, the offset the  *)
(* next session would start at is 0, also while a session is in flight.    *)
C7_ResetNotOverwritten ==
    (resetPending /\ CanPlayQuran(env)) => load_offset(offsetStore, env.duration) = 0

(* C8: once stop-all has been requested, no session thread starts another *)
(* playback of the clip.                                                   *)
C8_NoPlaybackAfterStop ==
    [][ stop_flag => ~(\E i \in DOMAIN sessions : SessionPlay(i)) ]_vars

(* C9: nothing but the operator's interrupt ends main(): the process      *)
(* never ends on an error of a collaborator.                               *)
C9_OnlyInterruptEndsLoop == pc # "exited"

BuildsOfProcess == {r \in refreshLog : r.inc = incarnation}

TickRefreshesAfter2AM(d) ==
    {r \in BuildsOfProcess : r.tick /\ DateOf(r.now) = d /\ TimeOf(r.now) >= TwoAM}

StartedBefore2AM(d) ==
    \E r \in BuildsOfProcess : ~r.tick /\ r.now < d * DAY + TwoAM

(* C10: the refresh decision is true with no prior refresh, false when    *)
(* the date is unchanged and refreshedAfter2AM is true, and, while builds  *)
(* succeed, true on at most one tick at or after 02:00 of a day: on        *)
(* exactly one when the engine was polling before 02:00, after which       *)
(* refreshedAfter2AM is true.                                              *)
C10_RefreshOnceAfter2AM ==
    /\ \A r \in BOOLEAN : should_refresh(clock, NoDate, r)
    /\ ~should_refresh(clock, DateOf(clock), TRUE)
    /\ (pc = "poll" /\ lastNow # NoTick /\ TimeOf(lastNow) >= TwoAM
           /\ \A r \in BuildsOfProcess : r.ok)
          => LET d == DateOf(lastNow)
                 n == Cardinality(TickRefreshesAfter2AM(d))
             IN  /\ n <= 1
                 /\ StartedBefore2AM(d) => n = 1
                 /\ refreshed_after_2am
                 /\ last_refresh_date = d

(* the engine polled across 02:00, refreshed on the first tick at or      *)
(* after 02:00 and has ticked again since                                  *)
C10_Witness ==
    /\ pc = "poll"
    /\ \A r \in BuildsOfProcess : r.ok
    /\ StartedBefore2AM(DateOf(lastNow))
    /\ \E r \in TickRefreshesAfter2AM(DateOf(lastNow)) : lastNow > r.now

SuccessfulBuildsOn(d) == {r \in BuildsOfProcess : r.ok /\ DateOf(r.now) = d}

TickedWithBuildsOk ==
    pc = "poll" /\ lastNow # NoTick /\ \A r \in BuildsOfProcess : r.ok

(* C11 as stated: on a day on which the engine runs and builds succeed,   *)
(* the schedule is built for that day and built a second time at or after  *)
(* 02:00, so once the engine has ticked at or after 02:00 the day has two  *)
(* builds.                                                                 *)
C11_TwoBuildsEveryDay ==
    (TickedWithBuildsOk /\ TimeOf(lastNow) >= TwoAM)
       => /\ Cardinality(SuccessfulBuildsOn(DateOf(lastNow))) >= 2
          /\ \E r \in SuccessfulBuildsOn(DateOf(lastNow)) : TimeOf(r.now) >= TwoAM

(* C11 amended: while builds succeed, after every tick the schedule in    *)
(* use was built on the day of the tick; after a tick at or after 02:00   *)
(* it was built at or after 02:00 of that day; and when the engine built   *)
(* the day's schedule before 02:00, the build at or after 02:00 is a       *)
(* second build of that day.  A process started at or after 02:00 makes    *)
(* one build on its first day.                                             *)
C11_BuiltEachDayAndAfter2AM ==
    TickedWithBuildsOk
       => LET d == DateOf(lastNow)
              after2 == {r \in SuccessfulBuildsOn(d) : TimeOf(r.now) >= TwoAM}
              before2 == {r \in SuccessfulBuildsOn(d) : TimeOf(r.now) < TwoAM}
          IN  /\ last_refresh_date = d
              /\ SuccessfulBuildsOn(d) # {}
              /\ schedule = build_today_schedule(fetched, d, env.files)
              /\ TimeOf(lastNow) >= TwoAM => after2 # {}
              /\ (TimeOf(lastNow) >= TwoAM /\ before2 # {})
                    => Cardinality(SuccessfulBuildsOn(d)) >= 2

(* the engine built Friday's schedule before 02:00 and again at 02:00 *)
C11_Witness ==
    /\ TickedWithBuildsOk
    /\ TimeOf(lastNow) >= TwoAM
    /\ \E r1, r2 \in SuccessfulBuildsOn(DateOf(lastNow)) :
          TimeOf(r1.now) < TwoAM /\ TimeOf(r2.now) >= TwoAM

(* the engine ran across midnight and rebuilt for the new day *)
C11_MidnightRebuild ==
    /\ TickedWithBuildsOk
    /\ \E r \in BuildsOfProcess : DateOf(r.now) < DateOf(lastNow)
    /\ SuccessfulBuildsOn(DateOf(lastNow)) # {}


(* C12: while the engine is in Polling, two consecutive ticks are at most *)
(* the poll interval apart, also after a failed periodic refresh, and no   *)
(* event of the current schedule has its whole trigger window pass         *)
(* between two consecutive ticks.                                          *)
C12_TickGapAtMostPoll ==
    [][ (pc = "poll" /\ pc' = "poll" /\ lastNow # NoTick /\ lastNow' # lastNow)
           => /\ lastNow' - lastNow <= POLL_SEC
              /\ \A i \in DOMAIN schedule :
                    ~(lastNow < schedule[i].t
                        /\ schedule[i].t + TRIGGER_WINDOW_SEC <= lastNow') ]_vars


(* C13: each operator command is idempotent: issued a second time right   *)
(* after the first, it leaves the OffsetStore value, the in-flight         *)
(* sessions, the audio device and the stop signal as the first left them.  *)
C13_CommandsIdempotent ==
    [][ /\ CmdShortTest => play_sound(SOUND_SHORT, mixer', env') = mixer'
        /\ CmdQuranTest =>
              play_quran_segment(sessions', offsetStore', clock', env', resetPending')
                 = sessions'
        /\ reset_quran_offset => (offsetStore' = 0 /\ resetPending')
        /\ stop_all_sounds =>
              (stop_flag' /\ (IF env'.pygame THEN mixer_stop(mixer') ELSE mixer') = mixer')
      ]_vars


(* the wall-clock second of the day written "H:MM" + "AM"/"PM" *)
ClockSeconds(s) ==
    LET h24 == CASE s[3] = "AM" /\ s[1] = 12 -> 0
                 [] s[3] = "AM" /\ s[1] # 12 -> s[1]
                 [] s[3] = "PM" /\ s[1] = 12 -> 12
                 [] s[3] = "PM" /\ s[1] # 12 -> s[1] + 12
    IN  h24 * 3600 + s[2] * 60

ExpectedEvents(times, today, files) ==
    LET At(p) == today * DAY + ClockSeconds(times[p])
        present == DOMAIN times
        friday == Weekday(today) = 4
    IN  {Event(p, At(p), "play", IF p = "Fajr" THEN SOUND_FAJR ELSE SOUND_GENERAL)
            : p \in present}
        \cup {Event(QuranPreLabel(p), At(p) - 5 * 60, "quran", "none")
                 : p \in present \ ({"Isha"} \cup (IF friday THEN {"Asr"} ELSE {}))}
        \cup (IF "Isha" \in present /\ SOUND_ISHA_PRE \in files
              THEN {Event("Isha-Pre", At("Isha") - (19 * 60 + 27), "play", SOUND_ISHA_PRE)}
              ELSE {})
        \cup {Event("Morning-Athkar", today * DAY + 6 * 3600 + 30 * 60, "play",
                    SOUND_MORNING)}
        \cup (IF friday /\ "Asr" \in present
              THEN {Event("Kahf-PreAsr", At("Asr") - 31 * 60, "play", SOUND_KAHF)}
              ELSE {})

ScheduleEvents == {schedule[i] : i \in DOMAIN schedule}

C14_PartialSource ==
    /\ pc = "poll"
    /\ DOMAIN fetched = {"Dhuhr", "Isha"}
    /\ Len(schedule) = 4

PositionIn(seq, e) == CHOOSE k \in DOMAIN seq : seq[k] = e

(* C15: the returned list is sorted ascending by fireAt, holds the        *)
(* emitted events, and events with equal fireAt are in emission order.     *)
C15_SortedAndStable ==
    pc = "poll"
       => LET em == emitted_events(fetched, last_refresh_date, env.files)
          IN  /\ Len(schedule) = Len(em)
              /\ ScheduleEvents = {em[k] : k \in DOMAIN em}
              /\ \A i, j \in DOMAIN schedule :
                    i < j => /\ schedule[i].t <= schedule[j].t
                             /\ schedule[i].t = schedule[j].t
                                   => PositionIn(em, schedule[i]) < PositionIn(em, schedule[j])

(* a schedule in which two events have the same fireAt and one whose      *)
(* emission order was not ascending                                        *)
C15_Witness ==
    /\ pc = "poll"
    /\ \E i, j \in DOMAIN schedule : i < j /\ schedule[i].t = schedule[j].t
    /\ LET em == emitted_events(fetched, last_refresh_date, env.files)
       IN  \E i, j \in DOMAIN em : i < j /\ em[i].t > em[j].t


(* C16: in every reachable state refreshedAfter2AM is true only if the    *)
(* schedule of the current calendar day was built at or after 02:00 of     *)
(* that day, also between the change of date and the rebuild for the new   *)
(* day.                                                                    *)
C16_FlagMeansBuiltAfter2AMToday ==
    refreshed_after_2am
       => /\ last_refresh_date = DateOf(clock)
          /\ \E r \in SuccessfulBuildsOn(DateOf(clock)) : TimeOf(r.now) >= TwoAM


KeysOfSchedule == {EventKey(schedule[i]) : i \in DOMAIN schedule}

(* C17: every key in FiredSet is the key of an event of the current       *)
(* schedule, and a successful build leaves FiredSet empty: after the step  *)
(* of a build FiredSet holds only the keys that step dispatched for the    *)
(* new generation.                                                         *)
C17_FiredKeysAreCurrent ==
    /\ [](fired \subseteq KeysOfSchedule)
    /\ [][ gen' # gen
              => \A k \in fired' :
                    \E r \in log' \ log :
                       r.gen = gen' /\ k = <<r.label, DateOf(r.t), TimeOf(r.t)>> ]_vars

(* a rebuild in a process that had dispatched before it, followed by a    *)
(* dispatch of the new generation                                          *)
C17_Witness ==
    /\ pc = "poll"
    /\ fired # {}
    /\ \E r \in log : r.inc = incarnation /\ r.gen < gen
    /\ \E r \in log : r.inc = incarnation /\ r.gen = gen


FailedRefreshStep == \E r \in refreshLog' \ refreshLog : r.tick /\ ~r.ok

LastTickFailed ==
    pc = "poll" /\ \E r \in BuildsOfProcess : r.tick /\ ~r.ok /\ r.now = lastNow

(* C18: a tick whose periodic refresh fails leaves the schedule, FiredSet, *)
(* lastRefreshDate and refreshedAfter2AM unchanged and dispatches nothing, *)
(* and the next tick attempts the refresh again.                           *)
C18_FailedRefreshLeavesState ==
    [][ /\ FailedRefreshStep
           => UNCHANGED <<schedule, fired, last_refresh_date, refreshed_after_2am, log>>
        /\ (LastTickFailed /\ lastNow' # lastNow /\ pc' # "interrupted")
           => \E r \in refreshLog' \ refreshLog : r.tick /\ r.now = clock ]_vars

(* a periodic refresh failed and the engine has ticked again since *)
C18_Witness ==
    /\ pc = "poll"
    /\ \E r \in BuildsOfProcess : r.tick /\ ~r.ok /\ r.now < lastNow
    /\ \E r \in BuildsOfProcess : r.tick /\ r.now = lastNow


DispatchesOfProcess == {r \in log : r.inc = incarnation}

(* C19: the engine enters Polling only in the step of a successful first  *)
(* build: in Initializing it has built nothing and dispatched nothing, a   *)
(* failed attempt keeps it in Initializing with a retry 60 s later and     *)
(* never ends the process, and the successful attempt takes it to Polling  *)
(* with lastRefreshDate the build date and refreshedAfter2AM set by the    *)
(* build time.                                                             *)
C19_PollingOnlyAfterFirstBuild ==
    /\ [](pc = "init" => /\ schedule = << >>
                         /\ DispatchesOfProcess = {}
                         /\ \A r \in BuildsOfProcess : ~r.ok)
    /\ [](pc = "poll" => \E r \in BuildsOfProcess : r.ok /\ ~r.tick)
    /\ [][ pc = "init"
              => /\ pc' \in {"init", "poll", "interrupted"}
                 /\ pc' = "poll" <=> (\E r \in refreshLog' \ refreshLog : r.ok /\ ~r.tick)
                 /\ pc' = "poll" => /\ last_refresh_date' = DateOf(clock)
                                    /\ refreshed_after_2am' = (TimeOf(clock) >= TwoAM)
                                    /\ log' = log
                 /\ (\E r \in refreshLog' \ refreshLog : ~r.ok)
                       => (pc' = "init" /\ wake' = clock + 60) ]_vars

(* the first build attempt failed, a later one succeeded *)
C19_Witness ==
    /\ pc = "poll"
    /\ \E r1, r2 \in BuildsOfProcess :
          ~r1.tick /\ ~r1.ok /\ ~r2.tick /\ r2.ok /\ r1.now < r2.now


AnnouncementFile(label) ==
    CASE label = "Isha-Pre" -> SOUND_ISHA_PRE
      [] label = "Morning-Athkar" -> SOUND_MORNING
      [] label = "Kahf-PreAsr" -> SOUND_KAHF
      [] label = "Fajr" -> SOUND_FAJR
      [] OTHER -> SOUND_GENERAL

IsAnnouncement(label) ==
    label \in {PRAYERS[i] : i \in DOMAIN PRAYERS}
                 \cup {"Isha-Pre", "Morning-Athkar", "Kahf-PreAsr"}

(* the audio device plays an announcement that the engine dispatched      *)
(* after session s had been started (in a later tick, or later in the      *)
(* event pass that started s)                                              *)
AnnouncedDuring(s) ==
    \E r \in DispatchesOfProcess :
       /\ IsAnnouncement(r.label)
       /\ mixer = [loaded |-> AnnouncementFile(r.label), playing |-> TRUE]
       /\ r.now < s.end_time
       /\ \/ r.now > s.end_time - PRECLIP_SECONDS
          \/ /\ r.now = s.end_time - PRECLIP_SECONDS
             /\ \E q \in DispatchesOfProcess :
                   ~IsAnnouncement(q.label) /\ q.now = r.now /\ q.t < r.t

(* C20: after the engine dispatches a SimplePlay announcement while a     *)
(* segment session is in flight, that session issues no load, play or      *)
(* stop on the audio device.                                               *)
C20_AnnouncementKeepsDevice ==
    [][ \A i \in DOMAIN sessions :
           AnnouncedDuring(sessions[i]) => ~(SessionPlay(i) \/ SessionStop(i)) ]_vars


====
